---------------------------- MODULE Spec2Model ----------------------------
(***************************************************************************)
(* Model of numt_overlap_analysis.py: the interval-overlap analysis        *)
(* (analyze_numt_overlaps), the figure builder (visualize_overlaps) and    *)
(* the sequential pipeline of main().                                      *)
(*                                                                         *)
(* Numbers with two decimals (the results of .round(2)) are kept as        *)
(* integers counting hundredths, wrapped in a record that also covers the  *)
(* non-finite floats a division by zero produces.                          *)
(***************************************************************************)
EXTENDS Integers, Sequences, FiniteSets

VARIABLES
    pc,             \* position of the run in main() / analyze_numt_overlaps()
    status,         \* "running", "done" (returned normally) or "error" (raised)
    caller,         \* "none", "main" (script run) or "direct" (library call)
    file,           \* rows of the input spreadsheet
    df,             \* rows loaded by pd.read_excel
    query_start,    \* query_start argument
    query_end,      \* query_end argument
    overlapping,    \* the overlap table returned by the analysis
    summary_stats,  \* the summary statistics returned by the analysis
    stdout,         \* sections printed so far
    fig,            \* TRUE while a pyplot figure is open
    png_writes,     \* number of times the image file was written
    xlsx_writes,    \* number of times the spreadsheet file was written
    log             \* history: the steps executed so far, in order

vars == <<pc, status, caller, file, df, query_start, query_end, overlapping,
          summary_stats, stdout, fig, png_writes, xlsx_writes, log>>

---------------------------------------------------------------------------
(* Bounds and inputs *)

MaxRecords == 2

DefaultQueryStart == 10761
DefaultQueryEnd == 12137

Rec(s, e) == [MtStart |-> s, MtEnd |-> e]

\* The corners of the default query region and one coordinate on each side;
\* every pair of them is a record, including the malformed ones with
\* start > end.
Coords == {10000, 10761, 12137, 13000}

\* Records inside and across the region (the worked examples among them),
\* and two long ones for the long query.
ExtraRecords ==
    { Rec(10000, 11000), Rec(11000, 11500), Rec(12000, 13000),
      Rec(10761, 10804), Rec(0, 30000), Rec(1, 30000) }

RecordSet == { Rec(s, e) : s \in Coords, e \in Coords } \cup ExtraRecords

\* Queries of a direct call: the default one, a long one, and two
\* degenerate ones (empty and reversed).
Queries ==
    { <<10761, 12137>>, <<0, 30000>>, <<11000, 11000>>, <<12137, 10761>> }

Files == UNION { [1..n -> RecordSet] : n \in 0..MaxRecords }

---------------------------------------------------------------------------
(* Arithmetic *)

Max(a, b) == IF a >= b THEN a ELSE b
Min(a, b) == IF a <= b THEN a ELSE b

\* n / d rounded to the nearest integer, ties to the even one (numpy's rint),
\* for d > 0.
RoundHalfEvenPos(n, d) ==
    LET q == n \div d
        r == n % d
    IN  IF 2 * r < d THEN q
        ELSE IF 2 * r > d THEN q + 1
        ELSE IF q % 2 = 0 THEN q ELSE q + 1

RoundHalfEven(n, d) ==
    IF d > 0 THEN RoundHalfEvenPos(n, d) ELSE RoundHalfEvenPos(-n, -d)

Fin(v) == [kind |-> "finite", val |-> v]
NonFin(k) == [kind |-> k, val |-> 0]

\* Variant: the percentage is cut to two decimals instead of rounded.
PercentOfTruncated(num, den) ==
    IF den = 0
    THEN IF num > 0 THEN NonFin("inf")
         ELSE IF num < 0 THEN NonFin("-inf")
         ELSE NonFin("nan")
    ELSE Fin((num * 10000) \div den)

\* (num / den * 100).round(2) in float arithmetic, in hundredths.  A zero
\* divisor gives inf, -inf or nan (numpy warns, it does not raise).
PercentOf(num, den) ==
    IF den = 0
    THEN IF num > 0 THEN NonFin("inf")
         ELSE IF num < 0 THEN NonFin("-inf")
         ELSE NonFin("nan")
    ELSE Fin(RoundHalfEven(num * 10000, den))

\* (total / count).round(2), in hundredths: Series.mean().round(2).
MeanOf(total, count) == Fin(RoundHalfEven(total * 100, count))

---------------------------------------------------------------------------
(* analyze_numt_overlaps: the computation on the loaded table *)

\* Variant: the overlap test with strict comparisons.
OverlapsQueryStrict(r, qs, qe) == r.MtStart < qe /\ r.MtEnd > qs

\* The overlap test of the boolean mask.
OverlapsQuery(r, qs, qe) == r.MtStart <= qe /\ r.MtEnd >= qs

\* Positions (in input order) of the rows the mask keeps.
MatchingIndices(d, qs, qe) ==
    LET Keep(i) == OverlapsQuery(d[i], qs, qe)
    IN  SelectSeq([i \in 1..Len(d) |-> i], Keep)

\* Variant: min where the code takes max.
OverlapStartMin(r, qs) == Min(r.MtStart, qs)

OverlapStart(r, qs) == Max(r.MtStart, qs)

OverlapEnd(r, qe) == Min(r.MtEnd, qe)

OverlapLength(r, qs, qe) == OverlapEnd(r, qe) - OverlapStart(r, qs)

OverlapPercentage(r, qs, qe) == PercentOf(OverlapLength(r, qs, qe), qe - qs)

\* Variant: the partial tests come before the Complete test.
categorize_overlap_partial_first(r, qs, qe) ==
    IF r.MtStart <= qs THEN "Partial (Left)"
    ELSE IF r.MtEnd >= qe THEN "Partial (Right)"
    ELSE IF r.MtStart <= qs /\ r.MtEnd >= qe THEN "Complete"
    ELSE "Internal"

\* Variant: Complete needs the record to extend strictly beyond the query.
categorize_overlap_strict(r, qs, qe) ==
    IF r.MtStart < qs /\ r.MtEnd > qe THEN "Complete"
    ELSE IF r.MtStart <= qs THEN "Partial (Left)"
    ELSE IF r.MtEnd >= qe THEN "Partial (Right)"
    ELSE "Internal"

categorize_overlap(r, qs, qe) ==
    IF r.MtStart <= qs /\ r.MtEnd >= qe THEN "Complete"
    ELSE IF r.MtStart <= qs THEN "Partial (Left)"
    ELSE IF r.MtEnd >= qe THEN "Partial (Right)"
    ELSE "Internal"

\* One row of the overlap table: the input row (kept under its index) with
\* the five computed columns.
OverlapRow(i, r, qs, qe) ==
    [ idx               |-> i,
      MtStart           |-> r.MtStart,
      MtEnd             |-> r.MtEnd,
      OverlapStart      |-> OverlapStart(r, qs),
      OverlapEnd        |-> OverlapEnd(r, qe),
      OverlapLength     |-> OverlapLength(r, qs, qe),
      OverlapPercentage |-> OverlapPercentage(r, qs, qe),
      OverlapType       |-> categorize_overlap(r, qs, qe) ]

OverlapTable(d, qs, qe) ==
    LET keep == MatchingIndices(d, qs, qe)
    IN  [k \in 1..Len(keep) |-> OverlapRow(keep[k], d[keep[k]], qs, qe)]

RECURSIVE SumLength(_)
SumLength(rows) ==
    IF rows = <<>> THEN 0
    ELSE Head(rows).OverlapLength + SumLength(Tail(rows))

\* Variant: the first row's length is taken for the maximum.
MaxLengthFirst(rows) == Head(rows).OverlapLength

RECURSIVE MaxLength(_)
MaxLength(rows) ==
    IF Len(rows) = 1 THEN Head(rows).OverlapLength
    ELSE Max(Head(rows).OverlapLength, MaxLength(Tail(rows)))

RECURSIVE MinLength(_)
MinLength(rows) ==
    IF Len(rows) = 1 THEN Head(rows).OverlapLength
    ELSE Min(Head(rows).OverlapLength, MinLength(Tail(rows)))

\* Variant: the statistics pandas computes on an empty column, without the
\* else branch.
EmptyStatsUnguarded ==
    [ total_overlaps        |-> 0,
      total_bases_covered   |-> 0,
      percent_query_covered |-> Fin(0),
      max_overlap_length    |-> 0,
      min_overlap_length    |-> 0,
      mean_overlap_length   |-> NonFin("nan") ]

\* The else branch: every statistic is the literal 0.
EmptyStats ==
    [ total_overlaps        |-> 0,
      total_bases_covered   |-> 0,
      percent_query_covered |-> Fin(0),
      max_overlap_length    |-> 0,
      min_overlap_length    |-> 0,
      mean_overlap_length   |-> Fin(0) ]

SummaryStats(rows, qs, qe) ==
    IF rows # <<>>
    THEN [ total_overlaps        |-> Len(rows),
           total_bases_covered   |-> SumLength(rows),
           percent_query_covered |-> PercentOf(SumLength(rows), qe - qs),
           max_overlap_length    |-> MaxLength(rows),
           min_overlap_length    |-> MinLength(rows),
           mean_overlap_length   |-> MeanOf(SumLength(rows), Len(rows)) ]
    ELSE EmptyStats

---------------------------------------------------------------------------
(* Control flow *)

\* Variant: the report is produced whatever the table holds.
HasOverlapsAlways(rows) == TRUE

\* if not overlapping_numts.empty
HasOverlaps(rows) == rows # <<>>

\* The statement that follows a completed step.
NextStep(step, rows) ==
    CASE step = "makedirs"      -> "read_excel"
      [] step = "call"          -> "read_excel"
      [] step = "read_excel"    -> "analyze"
      [] step = "analyze"       -> IF caller = "main" THEN "print_summary"
                                   ELSE "return"
      [] step = "print_summary" -> IF HasOverlaps(rows) THEN "print_details"
                                   ELSE "return"
      [] step = "print_details" -> "visualize"
      [] step = "visualize"     -> "savefig"
      [] step = "savefig"       -> "to_excel"
      [] step = "to_excel"      -> "print_saved"
      [] step = "print_saved"   -> "return"

\* A step that completes: control moves on, the run is "done" once it
\* reaches the return.
Completed(step, rows) ==
    LET nxt == NextStep(step, rows)
    IN  [ pc |-> nxt, status |-> IF nxt = "return" THEN "done" ELSE "running" ]

\* Variant: the exception is caught and the run carries on.
RaisedSwallowed(step, rows) == Completed(step, rows)

\* A step that raises: there is no try/except anywhere, so the exception
\* leaves main() and nothing after the step runs.
Raised(step, rows) == [ pc |-> step, status |-> "error" ]

\* One step of the run: it completes (ok) or raises, and the history
\* records which.
Advance(ok, step, rows) ==
    LET o == IF ok THEN Completed(step, rows) ELSE Raised(step, rows)
    IN  /\ pc' = o.pc
        /\ status' = o.status
        /\ log' = Append(log, <<step, IF ok THEN "ok" ELSE "raised">>)

At(step) == pc = step /\ status = "running"

Init ==
    /\ pc = "entry"
    /\ status = "running"
    /\ caller = "none"
    /\ file \in Files
    /\ df = <<>>
    /\ query_start = DefaultQueryStart
    /\ query_end = DefaultQueryEnd
    /\ overlapping = <<>>
    /\ summary_stats = EmptyStats
    /\ stdout = <<>>
    /\ fig = FALSE
    /\ png_writes = 0
    /\ xlsx_writes = 0
    /\ log = <<>>

\* python numt_overlap_analysis.py: main() resolves its paths, creates the
\* output directory (which may fail) and fixes the query region.
MainMakedirs ==
    /\ At("entry")
    /\ caller' = "main"
    /\ query_start' = DefaultQueryStart
    /\ query_end' = DefaultQueryEnd
    /\ \E ok \in BOOLEAN :
          Advance(ok, "makedirs", overlapping)
    /\ UNCHANGED <<file, df, overlapping, summary_stats, stdout, fig,
                   png_writes, xlsx_writes>>

\* A caller other than main() invokes analyze_numt_overlaps with its own
\* query region.
DirectCall ==
    /\ At("entry")
    /\ caller' = "direct"
    /\ \E q \in Queries :
          /\ query_start' = q[1]
          /\ query_end' = q[2]
    /\ Advance(TRUE, "call", overlapping)
    /\ UNCHANGED <<file, df, overlapping, summary_stats, stdout, fig,
                   png_writes, xlsx_writes>>

\* df = pd.read_excel(file_path)
ReadExcel ==
    /\ At("read_excel")
    /\ \E ok \in BOOLEAN :
          /\ df' = IF ok THEN file ELSE df
          /\ Advance(ok, "read_excel", overlapping)
    /\ UNCHANGED <<caller, file, query_start, query_end, overlapping,
                   summary_stats, stdout, fig, png_writes, xlsx_writes>>

\* The rest of analyze_numt_overlaps: filter, annotate, aggregate, return.
Analyze ==
    /\ At("analyze")
    /\ overlapping' = OverlapTable(df, query_start, query_end)
    /\ summary_stats' = SummaryStats(overlapping', query_start, query_end)
    /\ Advance(TRUE, "analyze", overlapping')
    /\ UNCHANGED <<caller, file, df, query_start, query_end, stdout, fig,
                   png_writes, xlsx_writes>>

\* The header, the query region and every statistic are printed.
PrintSummary ==
    /\ At("print_summary")
    /\ stdout' = Append(stdout, "summary")
    /\ Advance(TRUE, "print_summary", overlapping)
    /\ UNCHANGED <<caller, file, df, query_start, query_end, overlapping,
                   summary_stats, fig, png_writes, xlsx_writes>>

PrintDetails ==
    /\ At("print_details")
    /\ stdout' = Append(stdout, "details")
    /\ Advance(TRUE, "print_details", overlapping)
    /\ UNCHANGED <<caller, file, df, query_start, query_end, overlapping,
                   summary_stats, fig, png_writes, xlsx_writes>>

\* visualize_overlaps: nothing to draw for an empty table, else a figure is
\* built (which may fail) and left open as pyplot's current figure.
Visualize ==
    /\ At("visualize")
    /\ IF overlapping = <<>>
       THEN /\ stdout' = Append(stdout, "nothing to visualize")
            /\ fig' = fig
            /\ Advance(TRUE, "visualize", overlapping)
       ELSE /\ stdout' = stdout
            /\ \E ok \in BOOLEAN :
                  /\ fig' = ok
                  /\ Advance(ok, "visualize", overlapping)
    /\ UNCHANGED <<caller, file, df, query_start, query_end, overlapping,
                   summary_stats, png_writes, xlsx_writes>>

\* plt.savefig(...); plt.close()
SaveFig ==
    /\ At("savefig")
    /\ \E ok \in BOOLEAN :
          /\ png_writes' = IF ok THEN png_writes + 1 ELSE png_writes
          /\ fig' = IF ok THEN FALSE ELSE fig
          /\ Advance(ok, "savefig", overlapping)
    /\ UNCHANGED <<caller, file, df, query_start, query_end, overlapping,
                   summary_stats, stdout, xlsx_writes>>

\* overlapping_numts.to_excel(output_file, index=False)
ToExcel ==
    /\ At("to_excel")
    /\ \E ok \in BOOLEAN :
          /\ xlsx_writes' = IF ok THEN xlsx_writes + 1 ELSE xlsx_writes
          /\ Advance(ok, "to_excel", overlapping)
    /\ UNCHANGED <<caller, file, df, query_start, query_end, overlapping,
                   summary_stats, stdout, fig, png_writes>>

PrintSaved ==
    /\ At("print_saved")
    /\ stdout' = Append(stdout, "saved")
    /\ Advance(TRUE, "print_saved", overlapping)
    /\ UNCHANGED <<caller, file, df, query_start, query_end, overlapping,
                   summary_stats, fig, png_writes, xlsx_writes>>

Next ==
    \/ MainMakedirs
    \/ DirectCall
    \/ ReadExcel
    \/ Analyze
    \/ PrintSummary
    \/ PrintDetails
    \/ Visualize
    \/ SaveFig
    \/ ToExcel
    \/ PrintSaved

Spec == Init /\ [][Next]_vars

\* The run is one thread of straight-line code: a statement that can run
\* does run.
FairSpec == Spec /\ WF_vars(Next)

---------------------------------------------------------------------------
(* Properties *)

\* The analysis has returned its table and statistics.
Returned == \E k \in 1..Len(log) : log[k] = <<"analyze", "ok">>

RowsOf(t) == { t[k] : k \in 1..Len(t) }

WellFormed(r) == r.MtStart <= r.MtEnd

QueryLength == query_end - query_start

\* C1: a record of the input is a row of the overlap table iff
\* start <= query_end and end >= query_start (both inclusive); the table
\* holds nothing else, each matching record once, in input order.
C1_OverlapMembership ==
    Returned =>
        /\ \A i \in 1..Len(df) :
              (\E k \in 1..Len(overlapping) : overlapping[k].idx = i)
                  <=> (df[i].MtStart <= query_end /\ df[i].MtEnd >= query_start)
        /\ \A k \in 1..Len(overlapping) :
              /\ overlapping[k].idx \in 1..Len(df)
              /\ overlapping[k].MtStart = df[overlapping[k].idx].MtStart
              /\ overlapping[k].MtEnd = df[overlapping[k].idx].MtEnd
        /\ \A j, k \in 1..Len(overlapping) :
              j < k => overlapping[j].idx < overlapping[k].idx

\* A record starting exactly at the query's end is kept while another
\* record of the same input is dropped.
C1_Witness ==
    /\ Returned
    /\ Len(df) = 2
    /\ Len(overlapping) = 1
    /\ overlapping[1].MtStart = query_end
    /\ query_start < query_end

\* C2: every row has exactly one of the four types, the first that matches
\* in the order Complete, Partial (Left), Partial (Right), Internal.
C2_Classification ==
    Returned =>
        \A row \in RowsOf(overlapping) :
            LET left  == row.MtStart <= query_start
                right == row.MtEnd >= query_end
            IN  /\ row.OverlapType \in
                      {"Complete", "Partial (Left)", "Partial (Right)", "Internal"}
                /\ (row.OverlapType = "Complete") <=> (left /\ right)
                /\ (row.OverlapType = "Partial (Left)") <=> (left /\ ~right)
                /\ (row.OverlapType = "Partial (Right)") <=> (~left /\ right)
                /\ (row.OverlapType = "Internal") <=> (~left /\ ~right)
                /\ row.OverlapType = "Internal" =>
                      row.MtStart > query_start /\ row.MtEnd < query_end

\* A record meeting both the Complete and the Partial (Left) condition is
\* Complete, next to an Internal one.
C2_Witness ==
    /\ Returned
    /\ \E a, b \in RowsOf(overlapping) :
          /\ a.MtStart <= query_start /\ a.MtEnd >= query_end
          /\ a.OverlapType = "Complete"
          /\ b.OverlapType = "Internal"

IsMax(m, a, b) == m >= a /\ m >= b /\ m \in {a, b}
IsMin(m, a, b) == m <= a /\ m <= b /\ m \in {a, b}

\* p (in hundredths) is num / den * 100 rounded to two decimals, den > 0.
IsRounded2(p, num, den) ==
    /\ p.kind = "finite"
    /\ 2 * (p.val * den - num * 10000) <= den
    /\ 2 * (num * 10000 - p.val * den) <= den

HasDefaultQuery ==
    query_start = DefaultQueryStart /\ query_end = DefaultQueryEnd

\* C3: for a query with start < end each row has Overlap Start = max of the
\* starts, Overlap End = min of the ends, Overlap Length = their difference
\* and Overlap Percentage = length / query length * 100 rounded to two
\* decimals; with the three worked examples for the query [10761, 12137].
C3_OverlapGeometry ==
    (Returned /\ query_start < query_end) =>
        \A row \in RowsOf(overlapping) :
            /\ IsMax(row.OverlapStart, row.MtStart, query_start)
            /\ IsMin(row.OverlapEnd, row.MtEnd, query_end)
            /\ row.OverlapLength = row.OverlapEnd - row.OverlapStart
            /\ IsRounded2(row.OverlapPercentage, row.OverlapLength, QueryLength)
            /\ (HasDefaultQuery /\ row.MtStart = 12000 /\ row.MtEnd = 13000) =>
                  /\ row.OverlapStart = 12000
                  /\ row.OverlapEnd = 12137
                  /\ row.OverlapLength = 137
                  /\ row.OverlapType = "Partial (Right)"
            /\ (HasDefaultQuery /\ row.MtStart = 11000 /\ row.MtEnd = 11500) =>
                  /\ row.OverlapLength = 500
                  /\ row.OverlapPercentage = Fin(3634)
                  /\ row.OverlapType = "Internal"
            /\ (HasDefaultQuery /\ row.MtStart = 10000 /\ row.MtEnd = 12137) =>
                  /\ row.OverlapLength = 1376
                  /\ row.OverlapPercentage = Fin(10000)
                  /\ row.OverlapType = "Complete"

\* The three worked examples are rows of one table.
C3_Witness ==
    /\ Returned
    /\ HasDefaultQuery
    /\ \E row \in RowsOf(overlapping) : row.MtStart = 12000 /\ row.MtEnd = 13000
    /\ \E row \in RowsOf(overlapping) : row.MtStart = 11000 /\ row.MtEnd = 11500

\* C4 as stated, already for a query with start < end: every row of the
\* table, whatever its record, has Overlap Start <= Overlap End and a
\* non-negative Overlap Length.
C4_Original ==
    (Returned /\ query_start < query_end) =>
        \A row \in RowsOf(overlapping) :
            /\ row.OverlapStart <= row.OverlapEnd
            /\ row.OverlapLength >= 0

TouchesBoundary(r) == r.MtEnd = query_start \/ r.MtStart = query_end

\* C4 amended: for a query with start <= end, every row of a record with
\* start <= end has Overlap Start <= Overlap End and a non-negative Overlap
\* Length, and such a record touching the query at a boundary coordinate
\* is a row with Overlap Start = Overlap End and Overlap Length 0.
C4_WellFormedNonNegative ==
    (Returned /\ query_start <= query_end) =>
        /\ \A row \in RowsOf(overlapping) :
              WellFormed(row) =>
                  /\ row.OverlapStart <= row.OverlapEnd
                  /\ row.OverlapLength >= 0
        /\ \A i \in 1..Len(df) :
              (WellFormed(df[i]) /\ TouchesBoundary(df[i])) =>
                  \E row \in RowsOf(overlapping) :
                      /\ row.idx = i
                      /\ row.OverlapStart = row.OverlapEnd
                      /\ row.OverlapLength = 0

\* A record ending exactly where the query starts, and one starting exactly
\* where it ends, are both rows of length 0.
C4_Witness ==
    /\ Returned
    /\ query_start < query_end
    /\ \E a, b \in RowsOf(overlapping) :
          /\ a.MtStart < a.MtEnd /\ a.MtEnd = query_start /\ a.OverlapLength = 0
          /\ b.MtStart < b.MtEnd /\ b.MtStart = query_end /\ b.OverlapLength = 0

IsZeroStats(st) ==
    /\ st.total_overlaps = 0
    /\ st.total_bases_covered = 0
    /\ st.percent_query_covered = Fin(0)
    /\ st.max_overlap_length = 0
    /\ st.min_overlap_length = 0
    /\ st.mean_overlap_length = Fin(0)

SomeRecordOverlaps ==
    \E i \in 1..Len(df) :
        df[i].MtStart <= query_end /\ df[i].MtEnd >= query_start

\* C5: when no record of the input overlaps the query (an empty input
\* included) the table is empty and every statistic is the literal 0; when
\* some record overlaps, total_overlaps is at least 1.
C5_EmptyResult ==
    Returned =>
        /\ ~SomeRecordOverlaps =>
              overlapping = <<>> /\ IsZeroStats(summary_stats)
        /\ SomeRecordOverlaps => summary_stats.total_overlaps >= 1

\* A non-empty input none of whose records overlaps the query.
C5_Witness ==
    /\ Returned
    /\ Len(df) = 2
    /\ ~SomeRecordOverlaps
    /\ overlapping = <<>>

\* The sum of the lengths of rows 1..k, by position.
RECURSIVE LengthsUpTo(_, _)
LengthsUpTo(t, k) ==
    IF k = 0 THEN 0 ELSE LengthsUpTo(t, k - 1) + t[k].OverlapLength

\* C6: for a non-empty table, total_overlaps is the number of rows,
\* total_bases_covered the plain sum of the rows' lengths (nothing merged),
\* max and min the largest and smallest length of a row, with
\* min <= mean <= max and count*min <= total <= count*max.
C6_SummaryStatistics ==
    (Returned /\ overlapping # <<>>) =>
        LET st == summary_stats
            n  == Len(overlapping)
        IN  /\ st.total_overlaps = n
            /\ st.total_bases_covered = LengthsUpTo(overlapping, n)
            /\ \A row \in RowsOf(overlapping) :
                  /\ row.OverlapLength <= st.max_overlap_length
                  /\ row.OverlapLength >= st.min_overlap_length
            /\ \E row \in RowsOf(overlapping) :
                  row.OverlapLength = st.max_overlap_length
            /\ \E row \in RowsOf(overlapping) :
                  row.OverlapLength = st.min_overlap_length
            /\ st.mean_overlap_length.kind = "finite"
            /\ st.min_overlap_length * 100 <= st.mean_overlap_length.val
            /\ st.mean_overlap_length.val <= st.max_overlap_length * 100
            /\ n * st.min_overlap_length <= st.total_bases_covered
            /\ st.total_bases_covered <= n * st.max_overlap_length

\* Two records that both cover the query: the total exceeds the query
\* length and the covered percentage exceeds 100, with differing lengths
\* in another table.
C6_Witness ==
    /\ Returned
    /\ query_start < query_end
    /\ Len(overlapping) = 2
    /\ summary_stats.total_bases_covered > QueryLength
    /\ summary_stats.percent_query_covered.kind = "finite"
    /\ summary_stats.percent_query_covered.val > 10000
    /\ summary_stats.min_overlap_length < summary_stats.max_overlap_length

\* C7: a query with query_start >= query_end is rejected with an error; in
\* particular the call never returns rows and statistics computed with a
\* zero or negative query length.
C7_DegenerateQueryRejected ==
    (Returned /\ query_start >= query_end /\ overlapping # <<>>) =>
        status = "error"

StepsOf(l) == [k \in 1..Len(l) |-> l[k][1]]

IsPrefix(a, b) == Len(a) <= Len(b) /\ \A k \in 1..Len(a) : a[k] = b[k]

Occurrences(t, x) == Cardinality({ k \in 1..Len(t) : t[k] = x })

\* The statements of main() in program order.
MainOrder ==
    << "makedirs", "read_excel", "analyze", "print_summary", "print_details",
       "visualize", "savefig", "to_excel", "print_saved" >>

Did(step) == \E k \in 1..Len(log) : log[k] = <<step, "ok">>

\* The safety part of C8, for a run of main().
MainPipelineSafety ==
    caller = "main" =>
        /\ IsPrefix(StepsOf(log), MainOrder)
        /\ (Returned /\ status # "running") => Occurrences(stdout, "summary") = 1
        /\ Occurrences(stdout, "summary") <= 1
        /\ png_writes \in {0, 1}
        /\ xlsx_writes \in {0, 1}
        /\ png_writes = 1 =>
              Returned /\ overlapping # <<>> /\ Did("print_summary")
        /\ xlsx_writes = 1 =>
              Returned /\ overlapping # <<>> /\ Did("print_summary")
                  /\ png_writes = 1
        /\ (Returned /\ overlapping = <<>>) =>
              /\ png_writes = 0
              /\ xlsx_writes = 0
              /\ status # "error"
              /\ status = "done" => StepsOf(log) = SubSeq(MainOrder, 1, 4)
        /\ (status = "done" /\ overlapping # <<>>) =>
              /\ StepsOf(log) = MainOrder
              /\ png_writes = 1
              /\ xlsx_writes = 1

\* C8: a run of main() executes load, analyze, print summary, report, exit
\* in that order and always terminates; the summary is printed on every run
\* that completes the analysis; the image and the spreadsheet are each
\* written at most once, after the analysis and only for a non-empty
\* table; with an empty table neither is written and the run ends normally.
C8_MainPipeline ==
    /\ []MainPipelineSafety
    /\ <>(/\ status \in {"done", "error"}
          /\ (caller = "main" /\ Returned /\ overlapping = <<>>)
                => status = "done")

\* A run of main() that wrote both artifacts and ended normally.
C8_Witness ==
    /\ caller = "main"
    /\ status = "done"
    /\ png_writes = 1
    /\ xlsx_writes = 1
    /\ stdout = <<"summary", "details", "saved">>

\* C9: a failing step ends the run with an error: it is not retried, not
\* swallowed, and no later step runs; a run ends either with the whole
\* sequence completed or aborted with an error.
C9_FailuresAreFatal ==
    /\ \A k \in 1..Len(log) :
          log[k][2] = "raised" =>
              /\ k = Len(log)
              /\ status = "error"
              /\ pc = log[k][1]
    /\ status = "error" => (log # <<>> /\ log[Len(log)][2] = "raised")
    /\ \A j, k \in 1..Len(log) : j < k => log[j][1] # log[k][1]
    /\ status \in {"running", "done", "error"}
    /\ (status = "done" /\ caller = "main") =>
          StepsOf(log) = (IF overlapping = <<>> THEN SubSeq(MainOrder, 1, 4)
                          ELSE MainOrder)
    /\ (status = "done" /\ caller = "direct") =>
          StepsOf(log) = <<"call", "read_excel", "analyze">>
    /\ status = "running" => ENABLED Next

\* The spreadsheet export failed after the image was written: the run is
\* aborted there.
C9_Witness ==
    /\ status = "error"
    /\ pc = "to_excel"
    /\ png_writes = 1
    /\ xlsx_writes = 0

\* C10 as stated: for a query with start < end and a row of a record with
\* start <= end, 0 <= length <= query length, and the length is the query
\* length, i.e. the percentage is 100, iff the row is Complete.
C10_Original ==
    (Returned /\ query_start < query_end) =>
        \A row \in RowsOf(overlapping) :
            WellFormed(row) =>
                /\ 0 <= row.OverlapLength
                /\ row.OverlapLength <= QueryLength
                /\ (row.OverlapLength = QueryLength)
                       <=> (row.OverlapType = "Complete")
                /\ (row.OverlapPercentage = Fin(10000))
                       <=> (row.OverlapType = "Complete")

\* C10 amended: for a query with start < end and a row of a record with
\* start <= end, 0 <= length <= query length; the length is the query
\* length iff the row is Complete, and then the percentage is 100; a row
\* of another type is strictly shorter than the query, and its percentage
\* is at most 100 (it is 100.00 by rounding when the row is within 0.005%
\* of the query length).
C10_LengthBounds ==
    (Returned /\ query_start < query_end) =>
        \A row \in RowsOf(overlapping) :
            WellFormed(row) =>
                /\ 0 <= row.OverlapLength
                /\ row.OverlapLength <= QueryLength
                /\ (row.OverlapLength = QueryLength)
                       <=> (row.OverlapType = "Complete")
                /\ row.OverlapType = "Complete" =>
                       row.OverlapPercentage = Fin(10000)
                /\ row.OverlapType # "Complete" =>
                       /\ row.OverlapLength < QueryLength
                       /\ row.OverlapPercentage.kind = "finite"
                       /\ row.OverlapPercentage.val <= 10000
                       /\ row.OverlapPercentage.val = 10000 =>
                             20000 * (QueryLength - row.OverlapLength)
                                 <= QueryLength

\* A Complete row next to a shorter one whose percentage rounds to 100.00.
C10_Witness ==
    /\ Returned
    /\ query_start < query_end
    /\ \E a, b \in RowsOf(overlapping) :
          /\ WellFormed(a) /\ a.OverlapType = "Complete"
          /\ a.OverlapLength = QueryLength
          /\ WellFormed(b) /\ b.OverlapType # "Complete"
          /\ b.OverlapPercentage = Fin(10000)

=============================================================================
